---- MODULE Spec2Model ----
(***************************************************************************)
(* Model of the task-processing backend: the interaction-log store         *)
(* (DatabaseService over one SQLite table), the task processor (AIService) *)
(* and the request handlers of routes/taskRoutes.                          *)
(*                                                                         *)
(* Four specifications are given.                                          *)
(*   Spec       the HTTP server: the handlers of /tasks/* and /health,     *)
(*              interleaved at the await of the generation call, over one  *)
(*              shared store.                                              *)
(*   SpecStore  the store's public methods called directly with arbitrary  *)
(*              arguments.                                                 *)
(*   SpecAI     the methods of AIService called directly with tasks made   *)
(*              of the words they look for.                                *)
(*   SpecCLI    the command-line interface's prompt loop together with the *)
(*              server's submission handler, over one table.               *)
(* Every database call takes an input `fault`: whether the SQLite          *)
(* statement raises (I/O error, closed handle, ...).  A faulting statement *)
(* changes no row.                                                         *)
(*                                                                         *)
(* JavaScript strings that the code inspects are sequences of one-char     *)
(* strings; other texts are sequences of tokens.  A JavaScript value that  *)
(* may be undefined or null is a record [t, v]: t its type tag, v its      *)
(* text.                                                                   *)
(***************************************************************************)
EXTENDS Integers, Sequences, FiniteSets, TLC

VARIABLES
    rows,       \* the interaction_logs table: a set of rows
    pending,    \* submissions suspended at the await of their generation call
    now,        \* the wall clock, Date.now(), in milliseconds
    nextUuid,   \* uuidv4's source of identifiers: ids below it were issued
    apiKey,     \* whether process.env.OPENAI_API_KEY is set
    instance,   \* the static field DatabaseService.instance
    cli,        \* the command-line interface: where its prompt loop stands
    calls,      \* per issued id, the backend generation calls made: their messages
    done,       \* completed submissions: id, HTTP status, rows inserted
    ret,        \* the last call of a store method: arguments and outcome
    res         \* the last HTTP response: route, status code, body

vars == <<rows, pending, now, nextUuid, apiKey, instance, cli, calls, done, ret, res>>

(***************************************************************************)
(* Bounds of the model.                                                    *)
(***************************************************************************)
MaxSubmissions == 2     \* valid submissions accepted in one behaviour
MaxClock == 1           \* the clock ticks from 0 up to MaxClock
NumIds == 2             \* ids 1..NumIds offered to the store's methods directly

(***************************************************************************)
(* JavaScript values.                                                      *)
(***************************************************************************)
Undefined == [t |-> "undefined", v |-> <<>>]
Null == [t |-> "null", v |-> <<>>]
Str(s) == [t |-> "string", v |-> s]
Num(tok) == [t |-> "number", v |-> <<tok>>]
Bool(b) == [t |-> "boolean", v |-> <<IF b THEN "true" ELSE "false">>]

\* typeof x
typeof(x) == IF x.t = "null" THEN "object" ELSE x.t

\* ToBoolean(x): undefined, null, "", 0, NaN and false are falsy
truthy(x) ==
    CASE x.t = "undefined" -> FALSE
      [] x.t = "null" -> FALSE
      [] x.t = "string" -> Len(x.v) > 0
      [] x.t = "number" -> x.v \notin {<<"0">>, <<"NaN">>}
      [] x.t = "boolean" -> x.v = <<"true">>
      [] OTHER -> TRUE

\* x || y
OrElse(x, y) == IF truthy(x) THEN x ELSE y

WhiteSpace == {" ", "\t", "\n"}

RECURSIVE trimStart(_)
trimStart(s) ==
    IF Len(s) > 0 /\ Head(s) \in WhiteSpace THEN trimStart(Tail(s)) ELSE s

RECURSIVE trimEnd(_)
trimEnd(s) ==
    IF Len(s) > 0 /\ s[Len(s)] \in WhiteSpace
    THEN trimEnd(SubSeq(s, 1, Len(s) - 1))
    ELSE s

\* A trim that leaves the white space at the end
trim_StartOnly(s) == trimStart(s)

\* String.prototype.trim
trim(s) == trimEnd(trimStart(s))

(***************************************************************************)
(* Timestamps.  new Date().toISOString() is a fixed-width text; the model  *)
(* keeps the width (two digits) and SQLite's bytewise text comparison.     *)
(***************************************************************************)
toISOString(ms) == <<(ms \div 10) % 10, ms % 10>>

RECURSIVE TextLess(_, _)
\* a < b for the TEXT values of SQLite: bytewise, a proper prefix first
TextLess(a, b) ==
    IF Len(b) = 0 THEN FALSE
    ELSE IF Len(a) = 0 THEN TRUE
    ELSE IF Head(a) < Head(b) THEN TRUE
    ELSE IF Head(a) > Head(b) THEN FALSE
    ELSE TextLess(Tail(a), Tail(b))

(***************************************************************************)
(* Metadata.  A JavaScript object is the sequence of its <<key, value>>    *)
(* pairs in insertion order.  JSON.stringify leaves out the keys whose     *)
(* value is undefined; the JSON text is modelled by the pairs it holds.    *)
(***************************************************************************)
RECURSIVE SelectPairs(_)
SelectPairs(obj) ==
    IF Len(obj) = 0 THEN <<>>
    ELSE IF Head(obj)[2].t = "undefined" THEN SelectPairs(Tail(obj))
    ELSE <<Head(obj)>> \o SelectPairs(Tail(obj))

JSONstringify(obj) == [t |-> "text", v |-> SelectPairs(obj.v)]
JSONparse(text) == [t |-> "object", v |-> text.v]

Obj(pairs) == [t |-> "object", v |-> pairs]

(***************************************************************************)
(* The table.  Column names are those of CREATE TABLE interaction_logs.    *)
(***************************************************************************)
StatusEnum == {"success", "error"}

\* The table created without its CHECK constraint
ConstraintsHold_NoCheck(table, r) ==
    \A q \in table : q.id # r.id

\* The constraints of the table: PRIMARY KEY (id) and CHECK (status IN ...).
\* The NOT NULL columns hold a string or an integer in every InteractionLog,
\* so NOT NULL never rejects one.
ConstraintsHold(table, r) ==
    /\ \A q \in table : q.id # r.id
    /\ r.status \in StatusEnum

\* The INSERT binding no processing time
BindRow_ZeroTime(log) ==
    [id |-> log.id,
     task |-> log.task,
     response |-> log.response,
     status |-> log.status,
     timestamp |-> log.timestamp,
     processing_time |-> 0,
     user_agent |-> OrElse(log.userAgent, Null),
     ip_address |-> OrElse(log.ipAddress, Null),
     metadata |-> IF truthy(log.metadata) THEN JSONstringify(log.metadata) ELSE Null]

\* The values bound to the INSERT's nine parameters
BindRow(log) ==
    [id |-> log.id,
     task |-> log.task,
     response |-> log.response,
     status |-> log.status,
     timestamp |-> log.timestamp,
     processing_time |-> log.processingTime,
     user_agent |-> OrElse(log.userAgent, Null),
     ip_address |-> OrElse(log.ipAddress, Null),
     metadata |-> IF truthy(log.metadata) THEN JSONstringify(log.metadata) ELSE Null]

\* A row as the read methods map it to an InteractionLog
MapRow(r) ==
    [id |-> r.id,
     task |-> r.task,
     response |-> r.response,
     status |-> r.status,
     timestamp |-> r.timestamp,
     processingTime |-> r.processing_time,
     userAgent |-> r.user_agent,
     ipAddress |-> r.ip_address,
     metadata |-> IF r.metadata.t # "null" THEN JSONparse(r.metadata) ELSE Undefined]

(***************************************************************************)
(* DatabaseService.  Each method is an operator from the table, the        *)
(* arguments and the fault input to the outcome: threw (an exception       *)
(* leaves the method), value (what it returns) and, for the writing        *)
(* methods, rows (the table afterwards).                                   *)
(***************************************************************************)
\* saveInteractionLog catching its own exception, as the delete methods do
saveInteractionLog_Swallow(table, log, fault) ==
    IF fault \/ ~ConstraintsHold(table, BindRow(log))
    THEN [threw |-> FALSE, value |-> <<>>, rows |-> table]
    ELSE [threw |-> FALSE, value |-> <<>>, rows |-> table \cup {BindRow(log)}]

\* saveInteractionLog over a table whose id column is no primary key
saveInteractionLog_NoPrimaryKey(table, log, fault) ==
    IF fault \/ BindRow(log).status \notin StatusEnum
    THEN [threw |-> TRUE, value |-> <<>>, rows |-> table]
    ELSE [threw |-> FALSE, value |-> <<>>, rows |-> table \cup {BindRow(log)}]

\* saveInteractionLog with INSERT OR REPLACE: the row of the same id is replaced
saveInteractionLog_Replace(table, log, fault) ==
    IF fault \/ BindRow(log).status \notin StatusEnum
    THEN [threw |-> TRUE, value |-> <<>>, rows |-> table]
    ELSE [threw |-> FALSE, value |-> <<>>,
          rows |-> {q \in table : q.id # log.id} \cup {BindRow(log)}]

\* saveInteractionLog whose statement writes the row before it raises
saveInteractionLog_InsertThenThrow(table, log, fault) ==
    IF ~ConstraintsHold(table, BindRow(log))
    THEN [threw |-> TRUE, value |-> <<>>, rows |-> table]
    ELSE [threw |-> fault, value |-> <<>>, rows |-> table \cup {BindRow(log)}]

saveInteractionLog(table, log, fault) ==
    IF fault \/ ~ConstraintsHold(table, BindRow(log))
    THEN [threw |-> TRUE, value |-> <<>>, rows |-> table]
    ELSE [threw |-> FALSE, value |-> <<>>, rows |-> table \cup {BindRow(log)}]

\* ORDER BY timestamp with DESC left out
OrderByTimestampDesc_Ascending(table) ==
    LET n == Cardinality(table)
    IN  {s \in [1..n -> table] :
            /\ \A i, j \in 1..n : i # j => s[i] # s[j]
            /\ \A i, j \in 1..n :
                   i < j => ~TextLess(s[j].timestamp, s[i].timestamp)}

\* ORDER BY timestamp DESC: every order of the rows in which no row precedes
\* a row of a greater timestamp; rows of equal timestamps come in any order.
OrderByTimestampDesc(table) ==
    LET n == Cardinality(table)
    IN  {s \in [1..n -> table] :
            /\ \A i, j \in 1..n : i # j => s[i] # s[j]
            /\ \A i, j \in 1..n :
                   i < j => ~TextLess(s[i].timestamp, s[j].timestamp)}

\* LIMIT ? OFFSET ?: a negative LIMIT is no limit, a negative OFFSET is 0
LimitOffset(s, limit, offset) ==
    LET off == IF offset < 0 THEN 0 ELSE offset
        end == IF limit < 0 \/ off + limit > Len(s) THEN Len(s) ELSE off + limit
    IN  SubSeq(s, off + 1, end)

MapRows(s) == [i \in 1..Len(s) |-> MapRow(s[i])]

\* The set of outcomes: the order of equal timestamps is SQLite's choice
getInteractionLogs(table, limit, offset, fault) ==
    IF fault
    THEN {[threw |-> TRUE, value |-> <<>>]}
    ELSE {[threw |-> FALSE, value |-> MapRows(LimitOffset(s, limit, offset))] :
             s \in OrderByTimestampDesc(table)}

\* getInteractionLogById whose SELECT has no WHERE clause
getInteractionLogById_NoWhere(table, id, fault) ==
    IF fault
    THEN [threw |-> TRUE, value |-> <<>>]
    ELSE IF table # {}
         THEN [threw |-> FALSE, value |-> <<MapRow(CHOOSE r \in table : TRUE)>>]
         ELSE [threw |-> FALSE, value |-> <<>>]

\* value: <<>> for null, <<log>> for the log found
getInteractionLogById(table, id, fault) ==
    IF fault
    THEN [threw |-> TRUE, value |-> <<>>]
    ELSE IF \E r \in table : r.id = id
         THEN [threw |-> FALSE,
               value |-> <<MapRow(CHOOSE r \in table : r.id = id)>>]
         ELSE [threw |-> FALSE, value |-> <<>>]

(***************************************************************************)
(* getStats.  JavaScript numbers are modelled as exact fractions           *)
(* [num, den]; SQL NULL is the fraction's absence, NullNum.                *)
(***************************************************************************)
Frac(n, d) == [num |-> n, den |-> d]
NullNum == [num |-> 0, den |-> 0]
FracEq(a, b) == a.den # 0 /\ b.den # 0 /\ a.num * b.den = b.num * a.den
FracTruthy(a) == a.den # 0 /\ a.num # 0

\* x || 0 for a number or SQL NULL
OrZero(a) == IF FracTruthy(a) THEN a ELSE Frac(0, 1)

RECURSIVE SqlSumSuccess(_)
\* SUM(CASE WHEN status = 'success' THEN 1 ELSE 0 END): NULL over no rows
SqlSumSuccess(table) ==
    IF table = {} THEN NullNum
    ELSE LET r == CHOOSE q \in table : TRUE
             rest == SqlSumSuccess(table \ {r})
             one == IF r.status = "success" THEN 1 ELSE 0
         IN  Frac(one + rest.num, 1)

RECURSIVE SqlSumTime(_)
SqlSumTime(table) ==
    IF table = {} THEN 0
    ELSE LET r == CHOOSE q \in table : TRUE
         IN  r.processing_time + SqlSumTime(table \ {r})

\* AVG(processing_time): NULL over no rows
SqlAvgTime(table) ==
    IF table = {} THEN NullNum ELSE Frac(SqlSumTime(table), Cardinality(table))

ZeroStats ==
    [totalInteractions |-> Frac(0, 1),
     successRate |-> Frac(0, 1),
     averageProcessingTime |-> Frac(0, 1)]

\* getStats with the success ratio not scaled to a percentage
getStats_Ratio(table, fault) ==
    IF fault
    THEN [threw |-> FALSE, value |-> ZeroStats]
    ELSE LET total == Frac(Cardinality(table), 1)
             success == SqlSumSuccess(table)
             avg_time == SqlAvgTime(table)
         IN  [threw |-> FALSE,
              value |->
                 [totalInteractions |-> OrZero(total),
                  successRate |->
                      IF total.num > 0
                      THEN Frac(success.num, success.den * total.num)
                      ELSE Frac(0, 1),
                  averageProcessingTime |-> OrZero(avg_time)]]

getStats(table, fault) ==
    IF fault
    THEN [threw |-> FALSE, value |-> ZeroStats]
    ELSE LET total == Frac(Cardinality(table), 1)
             success == SqlSumSuccess(table)
             avg_time == SqlAvgTime(table)
         IN  [threw |-> FALSE,
              value |->
                 [totalInteractions |-> OrZero(total),
                  successRate |->
                      IF total.num > 0
                      THEN Frac(success.num * 100, success.den * total.num)
                      ELSE Frac(0, 1),
                  averageProcessingTime |-> OrZero(avg_time)]]

\* deleteInteractionLog with WHERE id <= ?
deleteInteractionLog_UpTo(table, id, fault) ==
    IF fault
    THEN [threw |-> FALSE, value |-> FALSE, rows |-> table]
    ELSE LET hit == {r \in table : r.id <= id}
         IN  [threw |-> FALSE,
              value |-> Cardinality(hit) > 0,
              rows |-> table \ hit]

\* deleteInteractionLog answering changes >= 0
deleteInteractionLog_AlwaysTrue(table, id, fault) ==
    IF fault
    THEN [threw |-> FALSE, value |-> FALSE, rows |-> table]
    ELSE LET hit == {r \in table : r.id = id}
         IN  [threw |-> FALSE,
              value |-> Cardinality(hit) >= 0,
              rows |-> table \ hit]

deleteInteractionLog(table, id, fault) ==
    IF fault
    THEN [threw |-> FALSE, value |-> FALSE, rows |-> table]
    ELSE LET hit == {r \in table : r.id = id}
         IN  [threw |-> FALSE,
              value |-> Cardinality(hit) > 0,
              rows |-> table \ hit]

\* deleteAllInteractionLogs with a WHERE clause that spares the failed rows
deleteAllInteractionLogs_OnlySuccess(table, fault) ==
    IF fault
    THEN [threw |-> FALSE, value |-> 0, rows |-> table]
    ELSE LET hit == {r \in table : r.status = "success"}
         IN  [threw |-> FALSE, value |-> Cardinality(hit), rows |-> table \ hit]

deleteAllInteractionLogs(table, fault) ==
    IF fault
    THEN [threw |-> FALSE, value |-> 0, rows |-> table]
    ELSE [threw |-> FALSE, value |-> Cardinality(table), rows |-> {}]

(***************************************************************************)
(* What the last store call and the last HTTP response were.               *)
(*                                                                         *)
(* A call or a request runs to completion (the store is synchronous and    *)
(* the server single-threaded): `live` holds from the step that runs it    *)
(* until its caller has taken the outcome (Return); the next call starts   *)
(* after that.                                                             *)
(***************************************************************************)
NoCall ==
    [op |-> "none", live |-> FALSE, fault |-> FALSE, threw |-> FALSE,
     id |-> 0, limit |-> 0, offset |-> 0, log |-> <<>>,
     deleted |-> FALSE, count |-> 0, logs |-> <<>>, stats |-> <<>>,
     request |-> <<>>, outcome |-> "none", result |-> <<>>, prompt |-> <<>>,
     databasePath |-> <<>>, returned |-> <<>>]

\* A call of method op: the fault input and whether the method threw
Call(op, fault, threw) ==
    [NoCall EXCEPT !.op = op, !.live = TRUE, !.fault = fault, !.threw = threw]

\* After the return only one thing about the call is kept: that it was a
\* deleteAll whose statement ran (what "a deleteAll right after it" refers to)
Returned(call) ==
    IF call.op = "deleteAll" /\ ~call.fault
    THEN [NoCall EXCEPT !.op = "deleteAll"]
    ELSE NoCall

NoResponse ==
    [route |-> "none", live |-> FALSE, status |-> 0,
     data |-> <<>>, logs |-> <<>>, stats |-> <<>>, count |-> 0, health |-> <<>>]

Ready == ~ret.live /\ ~res.live

Return ==
    /\ ~Ready
    /\ ret' = Returned(ret)
    /\ res' = NoResponse
    /\ UNCHANGED <<rows, pending, now, nextUuid, apiKey, instance, cli, calls, done>>

(***************************************************************************)
(* The singleton.  DatabaseService.instance is a static field, undefined   *)
(* until the first getInstance; an instance is the object holding the path *)
(* its connection was opened on.                                           *)
(***************************************************************************)
DefaultDatabasePath == <<"./data/assistant.db">>

\* new DatabaseService(databasePath): the connection is opened on the path;
\* initializeTables creates the table if it does not exist
DatabaseService(databasePath) == [t |-> "object", v |-> databasePath]

\* A getInstance that opens a new connection whenever a path is given
getInstance_Reopen(inst, databasePath, env) ==
    IF ~truthy(inst) \/ truthy(databasePath)
    THEN DatabaseService(
             OrElse(databasePath, OrElse(env, Str(DefaultDatabasePath))).v)
    ELSE inst

\* DatabaseService.getInstance(databasePath?), env being
\* process.env.DATABASE_PATH: the value of the static field after the call,
\* which is the value returned
getInstance(inst, databasePath, env) ==
    IF ~truthy(inst)
    THEN LET path == OrElse(databasePath, OrElse(env, Str(DefaultDatabasePath)))
         IN  DatabaseService(path.v)
    ELSE inst

(***************************************************************************)
(* The command-line interface is at its prompt, inside processTask at the  *)
(* await of the strategy, or gone (process.exit).                          *)
(***************************************************************************)
AtPrompt == [at |-> "prompt", task |-> <<>>]

(***************************************************************************)
(* SpecStore: the public methods of DatabaseService, called directly.      *)
(***************************************************************************)
StoreIds == 1..NumIds
StoreStatuses == StatusEnum \cup {"pending"}
StoreTimes == {0, 1}
StoreProcessingTimes == {1, 2}

StoreLogs ==
    [id : StoreIds,
     task : {<<"a">>},
     response : {<<"done">>},
     status : StoreStatuses,
     timestamp : {toISOString(t) : t \in StoreTimes},
     processingTime : StoreProcessingTimes,
     userAgent : {Undefined},
     ipAddress : {Undefined},
     metadata : {Undefined}]

StoreLimits == -1..(NumIds + 1)
StoreOffsets == 0..(NumIds + 1)

\* The methods are called on the instance getInstance returned
Idle == UNCHANGED <<pending, now, nextUuid, apiKey, instance, cli, calls, done, res>>

Save(log, fault) ==
    LET out == saveInteractionLog(rows, log, fault)
    IN  /\ Ready
        /\ truthy(instance)
        /\ rows' = out.rows
        /\ ret' = [Call("save", fault, out.threw) EXCEPT !.log = <<log>>]
        /\ Idle

List(limit, offset, fault) ==
    /\ Ready
    /\ truthy(instance)
    /\ \E out \in getInteractionLogs(rows, limit, offset, fault) :
           ret' = [Call("list", fault, out.threw) EXCEPT
                       !.limit = limit, !.offset = offset, !.logs = out.value]
    /\ UNCHANGED rows
    /\ Idle

GetById(id, fault) ==
    LET out == getInteractionLogById(rows, id, fault)
    IN  /\ Ready
        /\ truthy(instance)
        /\ ret' = [Call("getById", fault, out.threw) EXCEPT
                       !.id = id, !.logs = out.value]
        /\ UNCHANGED rows
        /\ Idle

Stats(fault) ==
    LET out == getStats(rows, fault)
    IN  /\ Ready
        /\ truthy(instance)
        /\ ret' = [Call("stats", fault, out.threw) EXCEPT !.stats = <<out.value>>]
        /\ UNCHANGED rows
        /\ Idle

DeleteById(id, fault) ==
    LET out == deleteInteractionLog(rows, id, fault)
    IN  /\ Ready
        /\ truthy(instance)
        /\ rows' = out.rows
        /\ ret' = [Call("deleteById", fault, out.threw) EXCEPT
                       !.id = id, !.deleted = out.value]
        /\ Idle

DeleteAll(fault) ==
    LET out == deleteAllInteractionLogs(rows, fault)
    IN  /\ Ready
        /\ truthy(instance)
        /\ rows' = out.rows
        /\ ret' = [Call("deleteAll", fault, out.threw) EXCEPT !.count = out.value]
        /\ Idle

DatabasePaths == {Undefined, Str(<<>>), Str(<<"a.db">>)}
EnvDatabasePaths == {Undefined, Str(<<"env.db">>)}

GetInstance(databasePath, env) ==
    LET inst == getInstance(instance, databasePath, env)
    IN  /\ Ready
        /\ instance' = inst
        /\ ret' = [Call("getInstance", FALSE, FALSE) EXCEPT
                       !.databasePath = <<databasePath>>, !.returned = <<inst>>]
        /\ UNCHANGED <<rows, pending, now, nextUuid, apiKey, cli, calls, done, res>>

InitStore ==
    /\ rows = {}
    /\ pending = {}
    /\ now = 0
    /\ nextUuid = 1
    /\ apiKey = FALSE
    /\ instance = Undefined
    /\ cli = AtPrompt
    /\ calls = <<>>
    /\ done = {}
    /\ ret = NoCall
    /\ res = NoResponse

NextStore ==
    \/ \E databasePath \in DatabasePaths, env \in EnvDatabasePaths :
           GetInstance(databasePath, env)
    \/ \E log \in StoreLogs, fault \in BOOLEAN : Save(log, fault)
    \/ \E limit \in StoreLimits, offset \in StoreOffsets, fault \in BOOLEAN :
           List(limit, offset, fault)
    \/ \E id \in StoreIds, fault \in BOOLEAN : GetById(id, fault)
    \/ \E fault \in BOOLEAN : Stats(fault)
    \/ \E id \in StoreIds, fault \in BOOLEAN : DeleteById(id, fault)
    \/ \E fault \in BOOLEAN : DeleteAll(fault)
    \/ Return

SpecStore == InitStore /\ [][NextStore]_vars

(***************************************************************************)
(* AIService.  A TaskRequest is [task, context, priority]: task a string   *)
(* (its characters), context and priority strings or undefined.            *)
(***************************************************************************)
UpperCase == <<"A", "B", "C", "D", "E", "F", "G", "H", "I", "J", "K", "L", "M",
               "N", "O", "P", "Q", "R", "S", "T", "U", "V", "W", "X", "Y", "Z">>
LowerCase == <<"a", "b", "c", "d", "e", "f", "g", "h", "i", "j", "k", "l", "m",
               "n", "o", "p", "q", "r", "s", "t", "u", "v", "w", "x", "y", "z">>

LowerChar(c) ==
    IF \E i \in 1..Len(UpperCase) : UpperCase[i] = c
    THEN LowerCase[CHOOSE i \in 1..Len(UpperCase) : UpperCase[i] = c]
    ELSE c

\* String.prototype.toLowerCase
toLowerCase(s) == [i \in 1..Len(s) |-> LowerChar(s[i])]

\* String.prototype.includes
includes(s, sub) ==
    \E i \in 0..(Len(s) - Len(sub)) : SubSeq(s, i + 1, i + Len(sub)) = sub

AnalyzeLeads == <<"a", "n", "a", "l", "y", "z", "e", " ", "l", "e", "a", "d", "s">>
SummarizeCalls ==
    <<"s", "u", "m", "m", "a", "r", "i", "z", "e", " ", "c", "a", "l", "l", "s">>
UpdateClientReport ==
    <<"u", "p", "d", "a", "t", "e", " ", "c", "l", "i", "e", "n", "t", " ",
      "r", "e", "p", "o", "r", "t">>

\* The words getSystemPrompt looks for
Analyze == <<"a", "n", "a", "l", "y", "z", "e">>
Analysis == <<"a", "n", "a", "l", "y", "s", "i", "s">>
Summarize == <<"s", "u", "m", "m", "a", "r", "i", "z", "e">>
Summary == <<"s", "u", "m", "m", "a", "r", "y">>
Report == <<"r", "e", "p", "o", "r", "t">>
Update == <<"u", "p", "d", "a", "t", "e">>
Lead == <<"l", "e", "a", "d">>
Client == <<"c", "l", "i", "e", "n", "t">>

\* The five system instructions, each one text
AnalysisInstruction == <<"You are a data analysis assistant. ...">>
SummarizationInstruction == <<"You are a summarization expert. ...">>
ReportInstruction == <<"You are a professional report writer. ...">>
BusinessInstruction == <<"You are a business development assistant. ...">>
GenericInstruction == <<"You are a helpful AI assistant. ...">>

\* getSystemPrompt testing report/update before the other words
getSystemPrompt_ReportFirst(task) ==
    LET taskLower == toLowerCase(task)
    IN  IF includes(taskLower, Report) \/ includes(taskLower, Update)
        THEN ReportInstruction
        ELSE IF includes(taskLower, Analyze) \/ includes(taskLower, Analysis)
        THEN AnalysisInstruction
        ELSE IF includes(taskLower, Summarize) \/ includes(taskLower, Summary)
        THEN SummarizationInstruction
        ELSE IF includes(taskLower, Lead) \/ includes(taskLower, Client)
        THEN BusinessInstruction
        ELSE GenericInstruction

getSystemPrompt(task) ==
    LET taskLower == toLowerCase(task)
    IN  IF includes(taskLower, Analyze) \/ includes(taskLower, Analysis)
        THEN AnalysisInstruction
        ELSE IF includes(taskLower, Summarize) \/ includes(taskLower, Summary)
        THEN SummarizationInstruction
        ELSE IF includes(taskLower, Report) \/ includes(taskLower, Update)
        THEN ReportInstruction
        ELSE IF includes(taskLower, Lead) \/ includes(taskLower, Client)
        THEN BusinessInstruction
        ELSE GenericInstruction

\* `Task: ${task}`, then the context and the priority that are given
buildUserPrompt(request) ==
    <<"Task: ">> \o request.task
        \o (IF truthy(request.context)
            THEN <<"\n\nContext: ">> \o request.context.v
            ELSE <<>>)
        \o (IF truthy(request.priority)
            THEN <<"\n\nPriority: ">> \o request.priority.v
            ELSE <<>>)

\* The messages of the one openai.chat.completions.create call
chatMessages(request) ==
    <<[role |-> "system", content |-> getSystemPrompt(request.task)],
      [role |-> "user", content |-> buildUserPrompt(request)]>>

\* generateResponse making the call a second time
backendCalls_Twice(request) == <<chatMessages(request), chatMessages(request)>>

\* The backend calls generateResponse makes for a request: one, never repeated
backendCalls(request) == <<chatMessages(request)>>

Digit == <<"0", "1", "2", "3", "4", "5", "6", "7", "8", "9">>

\* new Date().toLocaleString(): another text of the same instant
toLocaleString(ms) == <<Digit[((ms \div 10) % 10) + 1], Digit[(ms % 10) + 1]>>

\* uuidv4 returning one identifier every time
uuidv4_Constant(next) == 1

\* uuidv4(): an identifier never returned before
uuidv4(next) == next

\* The metadata both strategies build: priority || 'medium', context, one more key
Metadata(request, key, value) ==
    Obj(<< <<"priority", OrElse(request.priority, Str(<<"medium">>))>>,
           <<"context", request.context>>,
           <<key, value>> >>)

\* The outcomes of openai.chat.completions.create and what generateResponse
\* makes of each: a completion with content; a completion whose choices are
\* empty or whose first content is null or empty; a body without choices, on
\* which choices[0] raises a TypeError; a rejection with an Error (network,
\* authentication, rate limit); a rejection with a value that is no Error
BackendOutcomes == {"content", "empty", "malformed", "error", "thrown"}

\* The outcomes the submissions of the server and of the CLI draw from, one of
\* each kind of result: a completion, the fallback text, a failure
HandlerOutcomes == {"content", "empty", "error"}

\* value: the text returned; error: what was thrown, an Error with its message
\* or another value
generateResponse(outcome) ==
    CASE outcome = "content" ->
             [threw |-> FALSE, value |-> <<"completion">>,
              instanceofError |-> FALSE, message |-> <<>>]
      [] outcome = "empty" ->
             [threw |-> FALSE, value |-> <<"No response generated">>,
              instanceofError |-> FALSE, message |-> <<>>]
      [] outcome = "malformed" ->
             [threw |-> TRUE, value |-> <<>>,
              instanceofError |-> TRUE,
              message |-> <<"Cannot read properties of undefined (reading '0')">>]
      [] outcome = "error" ->
             [threw |-> TRUE, value |-> <<>>,
              instanceofError |-> TRUE, message |-> <<"rate limit exceeded">>]
      [] OTHER ->
             [threw |-> TRUE, value |-> <<>>,
              instanceofError |-> FALSE, message |-> <<>>]

\* error instanceof Error ? error.message : 'Unknown error'
ErrorMessage(gen) ==
    IF gen.instanceofError THEN gen.message ELSE <<"Unknown error">>

\* processTask whose catch block reports status 'success'
processTask_ErrorAsSuccess(p, outcome, clock) ==
    LET gen == generateResponse(outcome)
    IN  [id |-> p.id,
         task |-> p.request.task,
         response |-> IF gen.threw
                      THEN <<"Error processing task: ">> \o ErrorMessage(gen)
                      ELSE gen.value,
         status |-> "success",
         timestamp |-> toISOString(clock),
         processingTime |-> clock - p.startTime,
         metadata |-> Metadata(p.request, "model", Str(<<"gpt-3.5-turbo">>))]

\* processTask taking the timestamp at its entry
processTask_StampAtEntry(p, outcome, clock) ==
    LET gen == generateResponse(outcome)
    IN  [id |-> p.id,
         task |-> p.request.task,
         response |-> IF gen.threw
                      THEN <<"Error processing task: ">> \o ErrorMessage(gen)
                      ELSE gen.value,
         status |-> IF gen.threw THEN "error" ELSE "success",
         timestamp |-> toISOString(p.startTime),
         processingTime |-> clock - p.startTime,
         metadata |-> IF gen.threw
                      THEN Metadata(p.request, "error", Str(ErrorMessage(gen)))
                      ELSE Metadata(p.request, "model", Str(<<"gpt-3.5-turbo">>))]

\* processTask after the await: the TaskResponse built from the outcome
processTask(p, outcome, clock) ==
    LET gen == generateResponse(outcome)
    IN  IF ~gen.threw
        THEN [id |-> p.id,
              task |-> p.request.task,
              response |-> gen.value,
              status |-> "success",
              timestamp |-> toISOString(clock),
              processingTime |-> clock - p.startTime,
              metadata |-> Metadata(p.request, "model", Str(<<"gpt-3.5-turbo">>))]
        ELSE [id |-> p.id,
              task |-> p.request.task,
              response |-> <<"Error processing task: ">> \o ErrorMessage(gen),
              status |-> "error",
              timestamp |-> toISOString(clock),
              processingTime |-> clock - p.startTime,
              metadata |-> Metadata(p.request, "error", Str(ErrorMessage(gen)))]

\* The three report templates: the title, then the sections
LeadAnalysisTemplate ==
    <<"Lead Analysis Report",
      ": Summary, Top Performing Sources, Recommendations, Next Steps">>
CallSummaryTemplate ==
    <<"Call Summary Report",
      ": Call Overview, Key Outcomes, Action Items, Issues Identified">>
ClientReportTemplate ==
    <<"Client Report Update",
      ": Report Status, Key Metrics, Recent Achievements, Progress Summary, Next Steps">>

\* The acknowledgement embedding the task in lower case
simulatedResponse_LowerCased(request, clock) ==
    LET taskLower == toLowerCase(request.task)
    IN  IF includes(taskLower, AnalyzeLeads) THEN LeadAnalysisTemplate
        ELSE IF includes(taskLower, SummarizeCalls) THEN CallSummaryTemplate
        ELSE IF includes(taskLower, UpdateClientReport) THEN ClientReportTemplate
        ELSE <<"Task completed successfully: ">> \o taskLower
                 \o <<"The task has been processed and is ready for review.">>

\* The text simulateTaskProcessing answers with
simulatedResponse(request, clock) ==
    LET taskLower == toLowerCase(request.task)
    IN  IF includes(taskLower, AnalyzeLeads) THEN LeadAnalysisTemplate
        ELSE IF includes(taskLower, SummarizeCalls) THEN CallSummaryTemplate
        ELSE IF includes(taskLower, UpdateClientReport) THEN ClientReportTemplate
        ELSE <<"Task completed successfully: ">> \o request.task
                 \o <<"Status: Completed", "Timestamp: ">> \o toLocaleString(clock)
                 \o <<"Priority: ">> \o OrElse(request.priority, Str(<<"medium">>)).v
                 \o (IF truthy(request.context)
                     THEN <<"Context: ">> \o request.context.v
                     ELSE <<>>)
                 \o <<"The task has been processed and is ready for review.">>

\* simulateTaskProcessing leaving the simulated mark out of the metadata
simulateTaskProcessing_Unmarked(p, clock) ==
    [id |-> p.id,
     task |-> p.request.task,
     response |-> simulatedResponse(p.request, clock),
     status |-> "success",
     timestamp |-> toISOString(clock),
     processingTime |-> clock - p.startTime,
     metadata |-> Metadata(p.request, "model", Str(<<"gpt-3.5-turbo">>))]

\* simulateTaskProcessing after its delay
simulateTaskProcessing(p, clock) ==
    [id |-> p.id,
     task |-> p.request.task,
     response |-> simulatedResponse(p.request, clock),
     status |-> "success",
     timestamp |-> toISOString(clock),
     processingTime |-> clock - p.startTime,
     metadata |-> Metadata(p.request, "simulated", Bool(TRUE))]

(***************************************************************************)
(* The request handlers of /tasks.                                         *)
(***************************************************************************)
\* The response a handler sends: status code and the body's parts
Response(route, status) ==
    [route |-> route, live |-> TRUE, status |-> status,
     data |-> <<>>, logs |-> <<>>, stats |-> <<>>, count |-> 0, health |-> <<>>]

\* Request bodies and headers offered to POST /tasks/process
TaskInputs ==
    {Undefined, Num("42"), Str(<<>>), Str(<<" ">>), Str(<<"\t", " ">>),
     Str(<<"a">>), Str(<<" ", "a", " ">>)}

\* context, priority and the User-Agent header are given in none of them; some
\* bodies carry a timestamp of the client's, a field the handler does not read
Requests ==
    [task : TaskInputs, context : {Undefined}, priority : {Undefined},
     timestamp : {Undefined, Str(<<9, 9>>)},
     userAgent : {Undefined}, ip : {Str(<<"::1">>)}]

\* The validation without task.trim()
InvalidTask_NoTrim(task) ==
    \/ ~truthy(task)
    \/ typeof(task) # "string"

\* if (!task || typeof task !== 'string' || task.trim().length === 0)
InvalidTask(task) ==
    \/ ~truthy(task)
    \/ typeof(task) # "string"
    \/ Len(trim(task.v)) = 0

\* POST /tasks/process up to the await of the strategy: validation, then the
\* strategy's start (start time, id, and in live mode the backend call)
PostProcess(req) ==
    /\ Ready
    /\ IF InvalidTask(req.task)
       THEN /\ res' = Response("POST /process", 400)
            /\ UNCHANGED <<pending, nextUuid, calls>>
       ELSE /\ nextUuid <= MaxSubmissions
            /\ LET taskId == uuidv4(nextUuid)
               IN  /\ pending' = pending \cup
                          {[id |-> taskId,
                            request |-> [task |-> trim(req.task.v),
                                         context |-> req.context,
                                         priority |-> req.priority],
                            startTime |-> now,
                            userAgent |-> req.userAgent,
                            ip |-> req.ip]}
                   /\ calls' = IF apiKey
                               THEN (taskId :> backendCalls(
                                         [task |-> trim(req.task.v),
                                          context |-> req.context,
                                          priority |-> req.priority])) @@ calls
                               ELSE calls
            /\ nextUuid' = nextUuid + 1
            /\ res' = NoResponse
    /\ ret' = NoCall
    /\ UNCHANGED <<rows, now, apiKey, instance, cli, done>>

\* POST /tasks/process from the strategy's result on: the log is saved and
\* the response sent; an exception of save is answered 500
Finish(p, response, fault) ==
    LET interactionLog ==
            [id |-> response.id,
             task |-> response.task,
             response |-> response.response,
             status |-> response.status,
             timestamp |-> response.timestamp,
             processingTime |-> response.processingTime,
             userAgent |-> p.userAgent,
             ipAddress |-> p.ip,
             metadata |-> response.metadata]
        out == saveInteractionLog(rows, interactionLog, fault)
    IN  /\ rows' = out.rows
        /\ ret' = [Call("save", fault, out.threw) EXCEPT !.log = <<interactionLog>>]
        /\ res' = IF out.threw
                  THEN Response("POST /process", 500)
                  ELSE [Response("POST /process", 200) EXCEPT !.data = <<response>>]
        /\ done' = done \cup
               {[id |-> p.id,
                 http |-> IF out.threw THEN 500 ELSE 200,
                 inserted |-> Cardinality(out.rows) - Cardinality(rows)]}
        /\ pending' = pending \ {p}
        /\ UNCHANGED <<now, nextUuid, apiKey, instance, cli, calls>>

\* The backend call of a live submission settles
CompleteLive(p, outcome, fault) ==
    /\ Ready
    /\ apiKey
    /\ p \in pending
    /\ Finish(p, processTask(p, outcome, now), fault)

\* The delay of a simulated submission ends
CompleteSimulated(p, fault) ==
    /\ Ready
    /\ ~apiKey
    /\ p \in pending
    /\ Finish(p, simulateTaskProcessing(p, now), fault)

\* Math.min, Math.max
Min(a, b) == IF a < b THEN a ELSE b
Max(a, b) == IF a > b THEN a ELSE b

(***************************************************************************)
(* Query parameters.  A JavaScript number is [nan, n].                     *)
(***************************************************************************)
NaN == [nan |-> TRUE, n |-> 0]
Number(n) == [nan |-> FALSE, n |-> n]

DigitValue(c) == (CHOOSE i \in 1..Len(Digit) : Digit[i] = c) - 1
IsDigit(c) == \E i \in 1..Len(Digit) : Digit[i] = c

RECURSIVE ParseDigits(_, _)
\* The value of the longest prefix of digits of s, after the digits of value acc
ParseDigits(s, acc) ==
    IF Len(s) > 0 /\ IsDigit(Head(s))
    THEN ParseDigits(Tail(s), acc * 10 + DigitValue(Head(s)))
    ELSE acc

\* parseInt(x) of a query value, in radix 10: leading white space, a sign, then
\* digits up to the first other character; NaN when there is no digit.
\* undefined reads as the text "undefined"
parseInt(x) ==
    IF x.t # "string" THEN NaN
    ELSE LET s == trimStart(x.v)
             signed == Len(s) > 0 /\ Head(s) \in {"-", "+"}
             body == IF signed THEN Tail(s) ELSE s
         IN  IF Len(body) = 0 \/ ~IsDigit(Head(body)) THEN NaN
             ELSE IF signed /\ Head(s) = "-"
                  THEN Number(0 - ParseDigits(body, 0))
                  ELSE Number(ParseDigits(body, 0))

\* x || d for a number x
NumberOr(x, d) == IF x.nan \/ x.n = 0 THEN d ELSE x.n

DefaultLimit == 50
MaxLimit == 100
DefaultOffset == 0
MinOffset == 0

\* The query values offered: absent, a count, zero, negative, non-numeric and,
\* for limit, above the maximum
LimitQueries ==
    {Undefined, Str(<<"1">>), Str(<<"0">>), Str(<<"-", "1">>), Str(<<"x">>),
     Str(<<"1", "0", "1">>)}
OffsetQueries == {Undefined, Str(<<"1">>), Str(<<"0">>), Str(<<"-", "1">>)}

\* GET /tasks/logs
GetLogs(limitQuery, offsetQuery, fault) ==
    LET limit == Min(NumberOr(parseInt(limitQuery), DefaultLimit), MaxLimit)
        offset == Max(NumberOr(parseInt(offsetQuery), DefaultOffset), MinOffset)
    IN  /\ Ready
        /\ \E out \in getInteractionLogs(rows, limit, offset, fault) :
               /\ ret' = [Call("list", fault, out.threw) EXCEPT
                              !.limit = limit, !.offset = offset,
                              !.logs = out.value]
               /\ res' = IF out.threw
                         THEN Response("GET /logs", 500)
                         ELSE [Response("GET /logs", 200) EXCEPT !.logs = out.value]
        /\ UNCHANGED <<rows, pending, now, nextUuid, apiKey, instance, cli, calls, done>>

\* A path segment that is no UUID, e.g. "abc"
NotUuid == 0

\* The ids offered as the path parameter: one that is no UUID, the ids issued
\* so far and one not issued yet
PathIds == {NotUuid} \cup 1..nextUuid

\* req.params.id: the router binds :id to the path segment, a non-empty string
PathParam(id) == Str(<<id>>)

\* GET /tasks/logs/:id
GetLog(id, fault) ==
    LET out == getInteractionLogById(rows, id, fault)
    IN  /\ Ready
        /\ ret' = [Call("getById", fault, out.threw) EXCEPT
                       !.id = id, !.logs = out.value]
        /\ res' = IF out.threw THEN Response("GET /logs/:id", 500)
                  ELSE IF out.value = <<>> THEN Response("GET /logs/:id", 404)
                  ELSE [Response("GET /logs/:id", 200) EXCEPT !.logs = out.value]
        /\ UNCHANGED <<rows, pending, now, nextUuid, apiKey, instance, cli, calls, done>>

\* GET /tasks/stats
GetStats(fault) ==
    LET out == getStats(rows, fault)
    IN  /\ Ready
        /\ ret' = [Call("stats", fault, out.threw) EXCEPT !.stats = <<out.value>>]
        /\ res' = IF out.threw THEN Response("GET /stats", 500)
                  ELSE [Response("GET /stats", 200) EXCEPT !.stats = <<out.value>>]
        /\ UNCHANGED <<rows, pending, now, nextUuid, apiKey, instance, cli, calls, done>>

\* DELETE /tasks/logs/:id
DeleteLog(id, fault) ==
    LET param == PathParam(id)
        out == deleteInteractionLog(rows, id, fault)
    IN  /\ Ready
        /\ IF ~truthy(param) \/ typeof(param) # "string"
           THEN /\ res' = Response("DELETE /logs/:id", 400)
                /\ ret' = NoCall
                /\ rows' = rows
           ELSE /\ rows' = out.rows
                /\ ret' = [Call("deleteById", fault, out.threw) EXCEPT
                               !.id = id, !.deleted = out.value]
                /\ res' = IF out.threw THEN Response("DELETE /logs/:id", 500)
                          ELSE IF ~out.value THEN Response("DELETE /logs/:id", 404)
                          ELSE Response("DELETE /logs/:id", 200)
        /\ UNCHANGED <<pending, now, nextUuid, apiKey, instance, cli, calls, done>>

\* DELETE /tasks/logs that also drops the submissions in flight
DeleteLogs_CancelInFlight(fault) ==
    LET out == deleteAllInteractionLogs(rows, fault)
    IN  /\ Ready
        /\ rows' = out.rows
        /\ pending' = {}
        /\ ret' = [Call("deleteAll", fault, out.threw) EXCEPT !.count = out.value]
        /\ res' = [Response("DELETE /logs", 200) EXCEPT !.count = out.value]
        /\ UNCHANGED <<now, nextUuid, apiKey, instance, cli, calls, done>>

\* DELETE /tasks/logs
DeleteLogs(fault) ==
    LET out == deleteAllInteractionLogs(rows, fault)
    IN  /\ Ready
        /\ rows' = out.rows
        /\ ret' = [Call("deleteAll", fault, out.threw) EXCEPT !.count = out.value]
        /\ res' = IF out.threw THEN Response("DELETE /logs", 500)
                  ELSE [Response("DELETE /logs", 200) EXCEPT !.count = out.value]
        /\ UNCHANGED <<pending, now, nextUuid, apiKey, instance, cli, calls, done>>

\* typeof x === 'number' for a number or SQL NULL
IsNumber(a) == a.den # 0

\* GET /health: the database is probed with getStats, and reported disconnected
\* when the probe throws or its total is no number
GetHealth(fault) ==
    LET out == getStats(rows, fault)
        databaseStatus ==
            IF out.threw \/ ~IsNumber(out.value.totalInteractions)
            THEN "disconnected"
            ELSE "connected"
        status == IF databaseStatus = "connected" THEN "healthy" ELSE "unhealthy"
        statusCode == IF status = "healthy" THEN 200 ELSE 503
    IN  /\ Ready
        /\ ret' = [Call("stats", fault, out.threw) EXCEPT !.stats = <<out.value>>]
        /\ res' = [Response("GET /health", statusCode) EXCEPT
                       !.health = <<[status |-> status,
                                     database |-> databaseStatus]>>]
        /\ UNCHANGED <<rows, pending, now, nextUuid, apiKey, instance, cli, calls, done>>

\* A millisecond passes
Tick ==
    /\ Ready
    /\ now < MaxClock
    /\ now' = now + 1
    /\ UNCHANGED <<rows, pending, nextUuid, apiKey, instance, cli, calls, done, ret, res>>

Init ==
    /\ rows = {}
    /\ pending = {}
    /\ now = 0
    /\ nextUuid = 1
    /\ apiKey \in BOOLEAN
    /\ instance = getInstance(Undefined, Undefined, Undefined)
    /\ cli = AtPrompt
    /\ calls = <<>>
    /\ done = {}
    /\ ret = NoCall
    /\ res = NoResponse

Next ==
    \/ \E req \in Requests : PostProcess(req)
    \/ \E p \in pending, outcome \in HandlerOutcomes, fault \in BOOLEAN :
           CompleteLive(p, outcome, fault)
    \/ \E p \in pending, fault \in BOOLEAN : CompleteSimulated(p, fault)
    \/ \E limitQuery \in LimitQueries, offsetQuery \in OffsetQueries,
          fault \in BOOLEAN : GetLogs(limitQuery, offsetQuery, fault)
    \/ \E id \in PathIds, fault \in BOOLEAN : GetLog(id, fault)
    \/ \E fault \in BOOLEAN : GetStats(fault)
    \/ \E id \in PathIds, fault \in BOOLEAN : DeleteLog(id, fault)
    \/ \E fault \in BOOLEAN : DeleteLogs(fault)
    \/ \E fault \in BOOLEAN : GetHealth(fault)
    \/ Tick
    \/ Return

Spec == Init /\ [][Next]_vars

(***************************************************************************)
(* SpecCLI: the command-line interface (AICLInterface) and the server's    *)
(* submission handler over one table, both started in one environment.     *)
(* The prompt loop reads one line at a time: promptUser's callback awaits  *)
(* the command before it prompts again.  The clock stands still here:      *)
(* which task text is stored does not depend on the time.                  *)
(***************************************************************************)
\* String.prototype.startsWith
startsWith(s, prefix) ==
    Len(s) >= Len(prefix) /\ SubSeq(s, 1, Len(prefix)) = prefix

\* String.prototype.substring(start)
substring(s, start) == SubSeq(s, Min(start, Len(s)) + 1, Len(s))

\* The row a text names: identifiers are written as decimal numerals
IdOf(text) ==
    IF Len(text) > 0 /\ \A i \in 1..Len(text) : IsDigit(text[i])
    THEN ParseDigits(text, 0)
    ELSE NotUuid

ExitCommand == <<"e", "x", "i", "t">>
QuitCommand == <<"q", "u", "i", "t">>
HelpCommand == <<"h", "e", "l", "p">>
LogsCommand == <<"l", "o", "g", "s">>
StatsCommand == <<"s", "t", "a", "t", "s">>
ClearCommand == <<"c", "l", "e", "a", "r">>
ClearAllCommand == <<"c", "l", "e", "a", "r", "-", "a", "l", "l">>
DeletePrefix == <<"d", "e", "l", "e", "t", "e", " ">>

\* The lines typed at the prompt: each command, the empty and the blank line,
\* delete with an id, and tasks (one of them with white space around it,
\* one the word delete alone)
CliInputs ==
    {ExitCommand, <<"Q", "u", "i", "t">>, <<" ">> \o HelpCommand, LogsCommand,
     StatsCommand, ClearCommand, ClearAllCommand,
     <<>>, <<" ", "\t">>,
     DeletePrefix \o <<"1">>, <<"D", "E", "L", "E", "T", "E", " ", "2", " ">>,
     DeletePrefix \o <<"x">>, <<" ">> \o DeletePrefix \o <<"1">>,
     <<" ", "a", " ">>, DeletePrefix}

Exited == [at |-> "exited", task |-> <<>>]
Processing(p) == [at |-> "processing", task |-> <<p>>]

\* The command without any effect on the store: help, clear, the empty line
NoStoreCall ==
    /\ ret' = NoCall
    /\ UNCHANGED <<rows, nextUuid, calls, cli>>

\* showLogs: getInteractionLogs(10, 0), an exception of it is caught
showLogs(fault) ==
    /\ \E out \in getInteractionLogs(rows, 10, 0, fault) :
           ret' = [Call("list", fault, out.threw) EXCEPT
                       !.limit = 10, !.offset = 0, !.logs = out.value]
    /\ UNCHANGED <<rows, nextUuid, calls, cli>>

\* showStats: getStats()
showStats(fault) ==
    LET out == getStats(rows, fault)
    IN  /\ ret' = [Call("stats", fault, out.threw) EXCEPT !.stats = <<out.value>>]
        /\ UNCHANGED <<rows, nextUuid, calls, cli>>

\* clearAllLogs: deleteAllInteractionLogs()
clearAllLogs(fault) ==
    LET out == deleteAllInteractionLogs(rows, fault)
    IN  /\ rows' = out.rows
        /\ ret' = [Call("deleteAll", fault, out.threw) EXCEPT !.count = out.value]
        /\ UNCHANGED <<nextUuid, calls, cli>>

\* deleteLog(id): usage message for an empty id, else deleteInteractionLog(id.trim())
deleteLog(id, fault) ==
    IF Len(id) = 0 \/ Len(trim(id)) = 0
    THEN NoStoreCall
    ELSE LET out == deleteInteractionLog(rows, IdOf(trim(id)), fault)
         IN  /\ rows' = out.rows
             /\ ret' = [Call("deleteById", fault, out.threw) EXCEPT
                            !.id = IdOf(trim(id)), !.deleted = out.value]
             /\ UNCHANGED <<nextUuid, calls, cli>>

\* The CLI's processTask(taskInput) up to the await of the strategy: the
\* request is built from the line as typed, with priority 'medium'
cliProcessTask(taskInput) ==
    LET taskRequest == [task |-> taskInput,
                        context |-> Undefined,
                        priority |-> Str(<<"medium">>)]
        taskId == uuidv4(nextUuid)
    IN  /\ nextUuid <= MaxSubmissions
        /\ cli' = Processing([id |-> taskId,
                              request |-> taskRequest,
                              startTime |-> now])
        /\ calls' = IF apiKey
                    THEN (taskId :> backendCalls(taskRequest)) @@ calls
                    ELSE calls
        /\ nextUuid' = nextUuid + 1
        /\ ret' = NoCall
        /\ UNCHANGED rows

\* promptUser's callback on a line of input: the switch on
\* input.trim().toLowerCase()
PromptUser(input, fault) ==
    LET command == toLowerCase(trim(input))
    IN  /\ Ready
        /\ cli.at = "prompt"
        /\ CASE command \in {ExitCommand, QuitCommand} ->
                    /\ cli' = Exited
                    /\ ret' = NoCall
                    /\ UNCHANGED <<rows, nextUuid, calls>>
             [] command = HelpCommand -> NoStoreCall
             [] command = LogsCommand -> showLogs(fault)
             [] command = StatsCommand -> showStats(fault)
             [] command = ClearCommand -> NoStoreCall
             [] command = ClearAllCommand -> clearAllLogs(fault)
             [] command = <<>> -> NoStoreCall
             [] OTHER ->
                    IF startsWith(command, DeletePrefix)
                    THEN deleteLog(trim(substring(input, 7)), fault)
                    ELSE cliProcessTask(input)
        /\ UNCHANGED <<pending, now, apiKey, instance, done, res>>

\* The CLI's processTask from the strategy's result on: the log is saved
\* without user agent and address; an exception of save is caught and printed
CliFinish(response, fault) ==
    LET interactionLog ==
            [id |-> response.id,
             task |-> response.task,
             response |-> response.response,
             status |-> response.status,
             timestamp |-> response.timestamp,
             processingTime |-> response.processingTime,
             userAgent |-> Undefined,
             ipAddress |-> Undefined,
             metadata |-> response.metadata]
        out == saveInteractionLog(rows, interactionLog, fault)
    IN  /\ rows' = out.rows
        /\ ret' = [Call("save", fault, out.threw) EXCEPT !.log = <<interactionLog>>]
        /\ cli' = AtPrompt
        /\ UNCHANGED <<pending, now, nextUuid, apiKey, instance, calls, done, res>>

\* The backend call of the CLI's task settles
CliCompleteLive(outcome, fault) ==
    /\ Ready
    /\ apiKey
    /\ cli.at = "processing"
    /\ CliFinish(processTask(cli.task[1], outcome, now), fault)

\* The delay of the CLI's simulated task ends
CliCompleteSimulated(fault) ==
    /\ Ready
    /\ ~apiKey
    /\ cli.at = "processing"
    /\ CliFinish(simulateTaskProcessing(cli.task[1], now), fault)

InitCLI == Init

NextCLI ==
    \/ \E req \in Requests : PostProcess(req)
    \/ \E p \in pending, outcome \in HandlerOutcomes, fault \in BOOLEAN :
           CompleteLive(p, outcome, fault)
    \/ \E p \in pending, fault \in BOOLEAN : CompleteSimulated(p, fault)
    \/ \E input \in CliInputs, fault \in BOOLEAN : PromptUser(input, fault)
    \/ \E outcome \in HandlerOutcomes, fault \in BOOLEAN :
           CliCompleteLive(outcome, fault)
    \/ \E fault \in BOOLEAN : CliCompleteSimulated(fault)
    \/ Return

SpecCLI == InitCLI /\ [][NextCLI]_vars

(***************************************************************************)
(* SpecAI: the methods of AIService called directly, each call with a      *)
(* request of its own.                                                     *)
(***************************************************************************)
\* The texts the tasks are made of: the words of the system instructions in
\* several cases, the three phrases of the simulation, a text with none of them
AIWords ==
    {<<"a", "n", "a", "l", "y", "z", "e">>,
     <<"A", "N", "A", "L", "Y", "S", "I", "S">>,
     <<"S", "u", "m", "m", "a", "r", "i", "z", "e">>,
     <<"s", "u", "m", "m", "a", "r", "y">>,
     <<"r", "e", "p", "o", "r", "t">>,
     <<"U", "p", "d", "a", "t", "e">>,
     <<"l", "e", "a", "d">>,
     <<"C", "l", "i", "e", "n", "t">>,
     <<"a", "n", "a", "l", "y", "z", "e", " ", "l", "e", "a", "d", "s">>,
     <<"S", "u", "m", "m", "a", "r", "i", "z", "e", " ", "C", "a", "l", "l", "s">>,
     <<"s", "u", "m", "m", "a", "r", "i", "z", "e", " ", "c", "a", "l", "l", "s">>,
     <<"u", "p", "d", "a", "t", "e", " ", "c", "l", "i", "e", "n", "t", " ", "r", "e", "p", "o", "r", "t">>,
     <<"x", "y", "z", "1", "2", "3">>}

\* A task is one text or two with a blank between them
AITasks == AIWords \cup {a \o <<" ">> \o b : a, b \in AIWords}

AIRequests ==
    [task : AITasks,
     context : {Undefined, Str(<<"Q3">>)},
     priority : {Undefined, Str(<<"high">>)}]

\* A strategy entered at time 0 with a fresh id; it returns at time now
Entered(request) ==
    [id |-> uuidv4(nextUuid), request |-> request, startTime |-> 0,
     userAgent |-> Undefined, ip |-> Undefined]

IdleAI == UNCHANGED <<rows, pending, now, apiKey, instance, cli, calls, done, res>>

GetSystemPrompt(request) ==
    /\ Ready
    /\ ret' = [Call("getSystemPrompt", FALSE, FALSE) EXCEPT
                   !.request = <<request>>,
                   !.prompt = getSystemPrompt(request.task)]
    /\ UNCHANGED nextUuid
    /\ IdleAI

\* processTask: nothing outside its try block throws (Date.now, uuidv4), and
\* its catch block builds the result without a call that could throw
ProcessTask(request, outcome) ==
    /\ Ready
    /\ nextUuid <= MaxSubmissions
    /\ ret' = [Call("processTask", FALSE, FALSE) EXCEPT
                   !.request = <<request>>,
                   !.outcome = outcome,
                   !.result = <<processTask(Entered(request), outcome, now)>>]
    /\ nextUuid' = nextUuid + 1
    /\ IdleAI

SimulateTaskProcessing(request) ==
    /\ Ready
    /\ nextUuid <= MaxSubmissions
    /\ ret' = [Call("simulateTaskProcessing", FALSE, FALSE) EXCEPT
                   !.request = <<request>>,
                   !.result = <<simulateTaskProcessing(Entered(request), now)>>]
    /\ nextUuid' = nextUuid + 1
    /\ IdleAI

InitAI ==
    /\ rows = {}
    /\ pending = {}
    /\ now = 0
    /\ nextUuid = 1
    /\ apiKey = FALSE
    /\ instance = Undefined
    /\ cli = AtPrompt
    /\ calls = <<>>
    /\ done = {}
    /\ ret = NoCall
    /\ res = NoResponse

NextAI ==
    \/ \E request \in AIRequests : GetSystemPrompt(request)
    \/ \E request \in AIRequests, outcome \in BackendOutcomes :
           ProcessTask(request, outcome)
    \/ \E request \in AIRequests : SimulateTaskProcessing(request)
    \/ Tick
    \/ Return

SpecAI == InitAI /\ [][NextAI]_vars

(***************************************************************************)
(* Properties of the store (checked under SpecStore).  They are stated     *)
(* for calls whose SQLite statement does not fault; the faulting calls     *)
(* are the subject of C10, C11 and C12.                                    *)
(***************************************************************************)
RECURSIVE SumTimesBy(_, _)
\* The sum of the processing times of the table, one value of the column at a
\* time: value * number of rows holding it
SumTimesBy(table, values) ==
    IF values = {} THEN 0
    ELSE LET t == CHOOSE x \in values : TRUE
         IN  t * Cardinality({r \in table : r.processing_time = t})
                 + SumTimesBy(table, values \ {t})

\* C5: stats() over N rows of which S have status success returns
\* totalInteractions = N, successRate = 100*S/N and averageProcessingTime = the
\* mean processing time of the N rows; over no rows all three are 0 and nothing
\* is thrown.  (Stats changes no row, so the rows it ran over are the rows of
\* the state it leaves.)
C5_StatsAgree ==
    (ret.op = "stats" /\ ret.live /\ ~ret.fault) =>
        LET N == Cardinality(rows)
            S == Cardinality({r \in rows : r.status = "success"})
            T == SumTimesBy(rows, {r.processing_time : r \in rows})
        IN  /\ ~ret.threw
            /\ FracEq(ret.stats[1].totalInteractions, Frac(N, 1))
            /\ IF N = 0
               THEN /\ FracEq(ret.stats[1].successRate, Frac(0, 1))
                    /\ FracEq(ret.stats[1].averageProcessingTime, Frac(0, 1))
               ELSE /\ FracEq(ret.stats[1].successRate, Frac(100 * S, N))
                    /\ FracEq(ret.stats[1].averageProcessingTime, Frac(T, N))

\* C5 witness: stats ran over two rows, one of them a success, of different
\* processing times
C5_Witness ==
    /\ ret.op = "stats" /\ ret.live /\ ~ret.fault
    /\ Cardinality(rows) = 2
    /\ Cardinality({r \in rows : r.status = "success"}) = 1
    /\ Cardinality({r.processing_time : r \in rows}) = 2
    /\ FracEq(ret.stats[1].successRate, Frac(50, 1))

\* The logs a list call returned are rows of the table, each once
ListedFromTable(v) ==
    /\ \A i \in 1..Len(v) : \E r \in rows : MapRow(r) = v[i]
    /\ \A i, j \in 1..Len(v) : i # j => v[i].id # v[j].id

\* No row left out of v is more recent than a row of v
MostRecent(v) ==
    \A r \in rows :
        (\A i \in 1..Len(v) : v[i].id # r.id) =>
            \A i \in 1..Len(v) : ~TextLess(v[i].timestamp, r.timestamp)

\* C6 as the spec states it: for every k, list(k, 0) returns the min(k, total)
\* most recent rows in strictly descending timestamp order, and list with
\* offset = total returns the empty sequence.
C6_Original ==
    (ret.op = "list" /\ ret.live /\ ~ret.fault) =>
        LET v == ret.logs
            total == Cardinality(rows)
        IN  /\ ret.offset = 0 =>
                /\ Len(v) = Min(ret.limit, total)
                /\ ListedFromTable(v)
                /\ MostRecent(v)
                /\ \A i \in 1..(Len(v) - 1) :
                       TextLess(v[i + 1].timestamp, v[i].timestamp)
            /\ ret.offset = total => v = <<>>

\* C6 as amended: for every k >= 0, list(k, 0) returns min(k, total) rows, the
\* most recent ones, in descending timestamp order in which adjacent rows may
\* have equal timestamps; for a negative k it returns all the rows in that
\* order; list with offset = total returns the empty sequence.
C6_ListNewestFirst ==
    (ret.op = "list" /\ ret.live /\ ~ret.fault) =>
        LET v == ret.logs
            total == Cardinality(rows)
        IN  /\ ~ret.threw
            /\ ret.offset = 0 =>
                /\ Len(v) = IF ret.limit < 0 THEN total
                            ELSE Min(ret.limit, total)
                /\ ListedFromTable(v)
                /\ MostRecent(v)
                /\ \A i \in 1..(Len(v) - 1) :
                       ~TextLess(v[i].timestamp, v[i + 1].timestamp)
            /\ ret.offset = total => v = <<>>

\* C6 witness: the table holds rows of two different timestamps and list(1, 0)
\* returned one row, leaving an older one out
C6_Witness ==
    /\ ret.op = "list" /\ ret.live /\ ~ret.fault
    /\ ret.limit = 1 /\ ret.offset = 0
    /\ Len(ret.logs) = 1
    /\ \E r \in rows : TextLess(r.timestamp, ret.logs[1].timestamp)

\* C7: deleteById(id) returns false and leaves the row count unchanged when no
\* row has that id, and returns true and decreases the row count by exactly 1
\* when a row has it.
C7_DeleteById ==
    [][(ret'.op = "deleteById" /\ ret'.live /\ ~ret'.fault) =>
          IF \E r \in rows : r.id = ret'.id
          THEN /\ ret'.deleted
               /\ Cardinality(rows') = Cardinality(rows) - 1
          ELSE /\ ~ret'.deleted
               /\ Cardinality(rows') = Cardinality(rows)]_vars

\* C7 witness: a deleteById returned true and left another row in the table
C7_Witness ==
    /\ ret.op = "deleteById" /\ ret.live /\ ~ret.fault
    /\ ret.deleted
    /\ rows # {}
    /\ \A r \in rows : r.id # ret.id

\* C8: deleteAll() over M rows returns M and leaves no row; a deleteAll()
\* right after it returns 0.
C8_DeleteAll ==
    [][/\ (ret'.op = "deleteAll" /\ ret'.live /\ ~ret'.fault) =>
              /\ ret'.count = Cardinality(rows)
              /\ rows' = {}
       /\ (ret.op = "deleteAll" /\ ~ret.live /\ ~ret.fault
              /\ ret'.op = "deleteAll" /\ ret'.live) =>
              ret'.count = 0]_vars

\* C8 witness: a deleteAll removed two rows
C8_Witness ==
    /\ ret.op = "deleteAll" /\ ret.live /\ ~ret.fault
    /\ ret.count = 2
    /\ rows = {}

\* C9: save(log) throws, changes no row and adds none when a row with log.id
\* exists or log.status is neither 'success' nor 'error'; otherwise it inserts
\* exactly one row, the log's.  (log ranges over InteractionLog values whose
\* status is any string.)
C9_Save ==
    [][(ret'.op = "save" /\ ret'.live /\ ~ret'.fault) =>
          LET log == ret'.log[1]
          IN  IF \/ \E r \in rows : r.id = log.id
                 \/ log.status \notin {"success", "error"}
              THEN ret'.threw /\ rows' = rows
              ELSE /\ ~ret'.threw
                   /\ rows \subseteq rows'
                   /\ Cardinality(rows') = Cardinality(rows) + 1
                   /\ \E r \in rows' \ rows :
                          /\ r.id = log.id
                          /\ r.status = log.status
                          /\ r.timestamp = log.timestamp
                          /\ r.processing_time = log.processingTime]_vars

\* C9 witness: a save of a log of a permitted status was refused because
\* another row holds its id
C9_Witness ==
    /\ ret.op = "save" /\ ret.live /\ ~ret.fault /\ ret.threw
    /\ ret.log[1].status \in StatusEnum
    /\ \E r \in rows : r.id = ret.log[1].id /\ r.status # ret.log[1].status

(***************************************************************************)
(* Properties of the server (checked under Spec).                          *)
(***************************************************************************)
\* C1: when the backend call of a live submission fails (and the save does not
\* fault), POST /tasks/process answers 200 with status = error in the body, and
\* the table then holds exactly one row of that id, of status error.
C1_BackendFailureAbsorbed ==
    [][\A p \in pending, outcome \in {"error", "thrown"} :
           CompleteLive(p, outcome, FALSE) =>
               /\ res'.route = "POST /process"
               /\ res'.status = 200
               /\ res'.data[1].id = p.id
               /\ res'.data[1].status = "error"
               /\ Cardinality({r \in rows' : r.id = p.id}) = 1
               /\ \A r \in rows' : r.id = p.id => r.status = "error"]_vars

\* C1 witness: a response 200 whose body has status error, its row in the table
C1_Witness ==
    /\ res.live /\ res.route = "POST /process" /\ res.status = 200
    /\ res.data[1].status = "error"
    /\ \E r \in rows : r.id = res.data[1].id /\ r.status = "error"

\* C2: under any interleaving of submissions, a submission answered 200 has
\* inserted exactly one row; it is answered once and is no longer in flight,
\* so it inserts no second one.
C2_OneRowPerSubmission ==
    \A d \in done :
        d.http = 200 =>
            /\ d.inserted = 1
            /\ Cardinality({e \in done : e.id = d.id}) = 1
            /\ \A p \in pending : p.id # d.id
            /\ Cardinality({r \in rows : r.id = d.id}) <= 1

\* C2 witness: of two overlapping submissions the later one was answered 200
\* first and the earlier one then 200 as well, each with its row
C2_Witness ==
    /\ res.live /\ res.route = "POST /process" /\ res.status = 200
    /\ res.data[1].id = 1
    /\ \E d \in done : d.id = 2 /\ d.http = 200
    /\ Cardinality(rows) = 2
    /\ \E r \in rows : r.id = 1 /\ r.processing_time > 0

\* What C3 calls an unusable task: missing, not a string, empty or made of
\* white space only
Unusable(task) ==
    \/ task.t # "string"
    \/ \A i \in 1..Len(task.v) : task.v[i] \in WhiteSpace

\* C3: POST /tasks/process with a task that is missing, empty, white space only
\* or not a string answers 400, starts neither strategy (no submission is in
\* flight for it, no id is drawn, no backend call made) and changes no row.
C3_InvalidTaskRejected ==
    [][\A req \in Requests :
           (Unusable(req.task) /\ PostProcess(req)) =>
               /\ res'.route = "POST /process"
               /\ res'.status = 400
               /\ rows' = rows
               /\ pending' = pending
               /\ calls' = calls
               /\ nextUuid' = nextUuid]_vars

\* C3 witness: a 400 was answered while the table held a row
C3_Witness ==
    /\ res.live /\ res.route = "POST /process" /\ res.status = 400
    /\ rows # {}

\* The ids uuidv4 has issued: those of the submissions in flight and answered
IssuedInFlight == {p.id : p \in pending}
IssuedAnswered == {d.id : d \in done}

\* C4: no two rows share an id, and the ids issued to submissions are pairwise
\* different: every accepted submission (in flight or answered, its row deleted
\* or not) has an id of its own, so the id a POST returns is no earlier one.
C4_IdsUnique ==
    /\ \A r, q \in rows : r.id = q.id => r = q
    /\ Cardinality(IssuedInFlight) = Cardinality(pending)
    /\ Cardinality(IssuedAnswered) = Cardinality(done)
    /\ IssuedInFlight \cap IssuedAnswered = {}
    /\ Cardinality(IssuedInFlight \cup IssuedAnswered) = nextUuid - 1
    /\ (res.live /\ res.route = "POST /process" /\ res.status = 200) =>
           /\ res.data[1].id \notin IssuedInFlight
           /\ Cardinality({d \in done : d.id = res.data[1].id}) = 1

\* C4 witness: a POST returned an id after the row of an earlier id was deleted
C4_Witness ==
    /\ res.live /\ res.route = "POST /process" /\ res.status = 200
    /\ res.data[1].id = 2
    /\ \E d \in done : d.id = 1 /\ d.http = 200
    /\ \A r \in rows : r.id # 1

\* C10 as the spec states it: a faulting statement of a read method is caught
\* in the method, which returns the empty sequence (list), not-found (getById)
\* or all zeros (stats), so none of the three GET routes answers with the
\* propagated exception (500).
C10_ReadsDegrade ==
    (ret.live /\ ret.fault) =>
        /\ ret.op = "list" => (~ret.threw /\ ret.logs = <<>>)
        /\ ret.op = "getById" => (~ret.threw /\ ret.logs = <<>>)
        /\ ret.op = "stats" => (~ret.threw /\ ret.stats = <<ZeroStats>>)
        /\ res.route \in {"GET /logs", "GET /logs/:id", "GET /stats"} =>
               res.status # 500

\* C11 as the spec states it: a storage fault during a delete reaches the
\* caller as a server fault, so DELETE /tasks/logs/{id} and DELETE /tasks/logs
\* answer 500 and never 404 or 200 with deletedCount 0.
C11_DeleteFaultsPropagate ==
    (res.live /\ ret.live /\ ret.fault /\ ret.op \in {"deleteById", "deleteAll"}) =>
        /\ ret.threw
        /\ res.status = 500

\* C12: when save faults in a valid POST /tasks/process, the answer is 500 and
\* the table holds no row of that submission, then and ever after.
C12_SaveFaultAnswered500 ==
    /\ (res.live /\ res.route = "POST /process" /\ ret.fault) =>
           /\ res.status = 500
           /\ \A r \in rows : r.id # ret.log[1].id
    /\ \A d \in done :
           d.http = 500 => /\ d.inserted = 0
                           /\ \A r \in rows : r.id # d.id

\* C12 witness: a submission was answered 500 on a faulting save while the
\* table held the row of another submission
C12_Witness ==
    /\ res.live /\ res.route = "POST /process" /\ res.status = 500
    /\ ret.op = "save" /\ ret.fault /\ ret.threw
    /\ rows # {}
    /\ \A r \in rows : r.id # ret.log[1].id

\* C13 as the spec states it: whatever the limit and offset queries are, GET
\* /tasks/logs calls the store with a limit of at most 100 (50 when absent) and
\* an offset of at least 0 (0 when absent), so that the limit bounds the
\* response: it holds no more logs than the limit, hence never more than 100.
C13_QueryClamped ==
    (res.live /\ res.route = "GET /logs" /\ ret.live /\ ~ret.fault) =>
        /\ ret.limit <= MaxLimit
        /\ ret.offset >= MinOffset
        /\ Len(res.logs) <= Max(ret.limit, 0)

\* C14: GET /tasks/logs/{id}, its query not faulting, answers 404 for an id that
\* is not in the table (never written, or written and since deleted) and 200
\* with the log of that id for an id that is.
C14_GetLogStatus ==
    [][\A id \in PathIds :
           GetLog(id, FALSE) =>
               IF \E r \in rows : r.id = id
               THEN /\ res'.status = 200
                    /\ Len(res'.logs) = 1
                    /\ res'.logs[1].id = id
                    /\ \E r \in rows : res'.logs[1] = MapRow(r)
               ELSE /\ res'.status = 404
                    /\ res'.logs = <<>>]_vars

\* C14 witness: 404 for the id of a submission that was answered 200 (its row
\* written) and whose row has since been deleted
C14_Witness ==
    /\ res.live /\ res.route = "GET /logs/:id" /\ res.status = 404
    /\ ~ret.fault
    /\ \E d \in done : d.id = ret.id /\ d.http = 200
    /\ rows # {}

\* C15 as the spec states it: DELETE /tasks/logs/{id}, its statement not
\* faulting, answers 400 and changes no row when the id is malformed, 200 with
\* the row removed when the id is in the table, and 404 when it is absent.
C15_DeleteLogStatus ==
    [][\A id \in PathIds :
           DeleteLog(id, FALSE) =>
               IF id = NotUuid
               THEN /\ res'.status = 400
                    /\ rows' = rows
               ELSE IF \E r \in rows : r.id = id
               THEN /\ res'.status = 200
                    /\ rows' = {r \in rows : r.id # id}
               ELSE /\ res'.status = 404
                    /\ rows' = rows]_vars

\* C16 as the spec states it: GET /health answers 200 with status healthy and
\* database connected exactly when the store can be queried, and 503 with
\* status unhealthy and database disconnected when the store's query faults.
C16_HealthReflectsStore ==
    (res.live /\ res.route = "GET /health") =>
        IF ret.fault
        THEN /\ res.status = 503
             /\ res.health[1] = [status |-> "unhealthy", database |-> "disconnected"]
        ELSE /\ res.status = 200
             /\ res.health[1] = [status |-> "healthy", database |-> "connected"]

(***************************************************************************)
(* Properties of AIService (C17, C19 and C20 checked under SpecAI, C18     *)
(* under Spec).                                                            *)
(***************************************************************************)
RECURSIVE Lookup(_, _)
\* obj[key] over the pairs of an object: undefined when the key is not there
Lookup(pairs, key) ==
    IF Len(pairs) = 0 THEN Undefined
    ELSE IF Head(pairs)[1] = key THEN Head(pairs)[2]
    ELSE Lookup(Tail(pairs), key)

\* C17 as the spec states it: processTask never raises, and for every outcome
\* of the backend call it returns either status success with the first
\* completion as response (the call returned a completion) or status error
\* with a response describing the error and metadata.error the failure message
\* (network, authentication or rate-limit failure, malformed response).
C17_ProcessTaskTotal ==
    (ret.live /\ ret.op = "processTask") =>
        /\ ~ret.threw
        /\ LET result == ret.result[1]
               error == Lookup(result.metadata.v, "error")
           IN  IF ret.outcome = "content"
               THEN /\ result.status = "success"
                    /\ result.response = <<"completion">>
                    /\ error = Undefined
               ELSE /\ result.status = "error"
                    /\ error.t = "string"
                    /\ result.response = <<"Error processing task: ">> \o error.v

\* C18: without a backend credential every valid submission is answered by the
\* simulation strategy and no backend call is made: the record returned and the
\* row persisted have status success and metadata.simulated true.  With a
\* credential the live strategy is used: a backend call is made for every
\* accepted submission and no record is marked simulated.
C18_StrategyByCredential ==
    LET Simulated(metadata) == Lookup(metadata.v, "simulated")
        answered == res.live /\ res.route = "POST /process" /\ res.status = 200
    IN  IF ~apiKey
        THEN /\ DOMAIN calls = {}
             /\ \A r \in rows :
                    /\ r.status = "success"
                    /\ Simulated(MapRow(r).metadata) = Bool(TRUE)
             /\ answered =>
                    /\ res.data[1].status = "success"
                    /\ Simulated(res.data[1].metadata) = Bool(TRUE)
        ELSE /\ DOMAIN calls = {p.id : p \in pending} \cup {d.id : d \in done}
             /\ \A r \in rows : Simulated(MapRow(r).metadata) = Undefined
             /\ answered => Simulated(res.data[1].metadata) = Undefined

\* C18 witness: without a credential a submission was answered and its row is
\* in the table
C18_Witness ==
    /\ ~apiKey
    /\ res.live /\ res.route = "POST /process" /\ res.status = 200
    /\ \E r \in rows : r.id = res.data[1].id
    /\ Cardinality(rows) = 2

\* The task holds none of the three phrases of the simulation, in any case
NoPhrase(task) ==
    \A phrase \in {AnalyzeLeads, SummarizeCalls, UpdateClientReport} :
        \A i \in 0..(Len(task) - Len(phrase)) :
            \E j \in 1..Len(phrase) : LowerChar(task[i + j]) # phrase[j]

\* C19: the simulation strategy answers the task 'analyze leads' with the
\* lead-analysis template (it contains 'Lead Analysis Report'), 'summarize
\* calls' with the call-summary template, 'update client report' with the
\* client-report template, and a task with none of the three phrases with an
\* acknowledgement that embeds the task text verbatim.
C19_SimulationTemplates ==
    (ret.live /\ ret.op = "simulateTaskProcessing") =>
        LET task == ret.request[1].task
            response == ret.result[1].response
        IN  /\ ret.result[1].status = "success"
            /\ task = AnalyzeLeads =>
                   /\ response = LeadAnalysisTemplate
                   /\ includes(response, <<"Lead Analysis Report">>)
            /\ task = SummarizeCalls => response = CallSummaryTemplate
            /\ task = UpdateClientReport => response = ClientReportTemplate
            /\ NoPhrase(task) =>
                   /\ Head(response) = "Task completed successfully: "
                   /\ SubSeq(response, 2, Len(task) + 1) = task

\* C19 witness: a task of capital letters with none of the phrases was
\* acknowledged
C19_Witness ==
    /\ ret.live /\ ret.op = "simulateTaskProcessing"
    /\ NoPhrase(ret.request[1].task)
    /\ ret.request[1].task # toLowerCase(ret.request[1].task)
    /\ Head(ret.result[1].response) = "Task completed successfully: "

\* The rules of C20 in their order: the words of each and its instruction
PromptRules ==
    << <<{Analyze, Analysis}, AnalysisInstruction>>,
       <<{Summarize, Summary}, SummarizationInstruction>>,
       <<{Report, Update}, ReportInstruction>>,
       <<{Lead, Client}, BusinessInstruction>> >>

\* Rule i matches: the task holds one of its words, in any case
RuleMatches(i, task) ==
    \E word \in PromptRules[i][1] :
        \E k \in 0..(Len(task) - Len(word)) :
            \A j \in 1..Len(word) : LowerChar(task[k + j]) = word[j]

\* C20: the system instruction is that of the first rule, in the order
\* analysis, summarization, report, business development, that matches the
\* task by a case-insensitive substring test, and the generic one when no rule
\* matches; every task gets exactly one instruction.
C20_FirstMatchingRule ==
    (ret.live /\ ret.op = "getSystemPrompt") =>
        LET task == ret.request[1].task
            matching == {i \in 1..Len(PromptRules) : RuleMatches(i, task)}
        IN  IF matching = {}
            THEN ret.prompt = GenericInstruction
            ELSE \E i \in matching :
                     /\ \A j \in matching : i <= j
                     /\ ret.prompt = PromptRules[i][2]

\* C20 witness: a task matching the report rule and the business rule, its
\* words in capitals, got the report instruction
C20_Witness ==
    /\ ret.live /\ ret.op = "getSystemPrompt"
    /\ RuleMatches(3, ret.request[1].task)
    /\ RuleMatches(4, ret.request[1].task)
    /\ ~RuleMatches(1, ret.request[1].task)
    /\ ~RuleMatches(2, ret.request[1].task)
    /\ ret.request[1].task # toLowerCase(ret.request[1].task)
    /\ ret.prompt = ReportInstruction

(***************************************************************************)
(* Properties of the rows: C21, C26 under SpecStore, C22, C28 under Spec.  *)
(***************************************************************************)
\* C21: no operation updates a row.  In every step every row of the table
\* stays as it was written or is removed, and it is removed by deleteById or
\* deleteAll only; what list and getById return is read from the rows as they
\* are, so a field read back stays what was written until the row is removed.
C21_RowsImmutable ==
    [][/\ \A r \in rows :
              \/ r \in rows'
              \/ /\ \A q \in rows' : q.id # r.id
                 /\ ret'.op \in {"deleteById", "deleteAll"}
       /\ (ret'.live /\ ret'.op \in {"list", "getById"}) =>
              \A i \in 1..Len(ret'.logs) :
                  \E r \in rows : r \in rows' /\ ret'.logs[i] = MapRow(r)]_vars

\* C21 witness: a save of a stored id with other contents was rejected and
\* the stored row is still there
C21_Witness ==
    /\ ret.live /\ ret.op = "save" /\ ~ret.fault /\ ret.threw
    /\ ret.log[1].status \in StatusEnum
    /\ \E r \in rows : r.id = ret.log[1].id /\ r # BindRow(ret.log[1])

\* C22 as the spec states it: save(log) followed by getById(log.id) returns
\* the metadata that was saved, key for key and value for value, the keys of
\* undefined value included.
C22_MetadataRoundTrip ==
    (ret.live /\ ret.op = "save" /\ ~ret.threw) =>
        LET read == getInteractionLogById(rows, ret.log[1].id, FALSE)
        IN  /\ ~read.threw
            /\ Len(read.value) = 1
            /\ read.value[1].metadata = ret.log[1].metadata

\* C26: every row of the table has status 'success' or 'error', whatever
\* statuses the saves were given.
C26_StatusInEnum ==
    \A r \in rows : r.status \in StatusEnum

\* C26 witness: a save of another status, its id not in the table, was
\* rejected while the table held rows
C26_Witness ==
    /\ ret.live /\ ret.op = "save" /\ ~ret.fault /\ ret.threw
    /\ ret.log[1].status \notin StatusEnum
    /\ \A r \in rows : r.id # ret.log[1].id
    /\ rows # {}

\* C28: DELETE /tasks/logs/{id}, that is deleteById(id), leaves every row of
\* another id as it was and adds none; the reading routes (list, getById,
\* stats, and the health probe, which calls stats) leave the table as it was.
C28_Frame ==
    [][/\ \A id \in PathIds, fault \in BOOLEAN :
              DeleteLog(id, fault) =>
                  /\ \A r \in rows : r.id # id => r \in rows'
                  /\ rows' \subseteq rows
       /\ (res'.live /\ res'.route \in {"GET /logs", "GET /logs/:id",
                                       "GET /stats", "GET /health"}) =>
              rows' = rows]_vars

\* C28 witness: a row was deleted and the row of another id is still there
C28_Witness ==
    /\ res.live /\ res.route = "DELETE /logs/:id" /\ res.status = 200
    /\ ret.deleted
    /\ \E r \in rows : r.id > ret.id

(***************************************************************************)
(* Properties of the submissions over time (checked under Spec).           *)
(***************************************************************************)
\* The outcomes of the backend call that are failures
Failures == {"malformed", "error", "thrown"}

\* C24: a valid submission in live mode makes exactly one backend generation
\* call.  When the call has failed the submission is over: no further call is
\* made for it, and the failure is returned and stored as an error result.
C24_OneBackendCall ==
    [][/\ apiKey =>
              /\ DOMAIN calls' = {p.id : p \in pending'} \cup {d.id : d \in done'}
              /\ \A id \in DOMAIN calls' : Len(calls'[id]) = 1
       /\ \A p \in pending, outcome \in Failures :
              CompleteLive(p, outcome, FALSE) =>
                  /\ calls' = calls
                  /\ p \notin pending'
                  /\ res'.data[1].status = "error"
                  /\ \E r \in rows' : r.id = p.id /\ r.status = "error"]_vars

\* C24 witness: the second of two live submissions was answered with an error
\* result, one call made for each
C24_Witness ==
    /\ apiKey
    /\ res.live /\ res.route = "POST /process" /\ res.status = 200
    /\ res.data[1].status = "error"
    /\ Cardinality(done) = 2
    /\ \A id \in DOMAIN calls : Len(calls[id]) = 1

\* C25: a row is inserted with the time of its insertion as timestamp, not
\* with a time of the client's, so under any interleaving of submissions no
\* row has a timestamp earlier than a row inserted before it.
C25_TimestampsInWriteOrder ==
    [][\A r \in rows' \ rows :
           /\ r.timestamp = toISOString(now)
           /\ \A q \in rows : ~TextLess(r.timestamp, q.timestamp)]_vars

\* C25 witness: the submission accepted first was written after the one
\* accepted second, with a later timestamp
C25_Witness ==
    /\ res.live /\ res.route = "POST /process" /\ res.status = 200
    /\ res.data[1].id = 1
    /\ \E q \in rows : q.id = 2 /\ TextLess(q.timestamp, res.data[1].timestamp)

\* C29: DELETE /tasks/logs removes the rows that are in the table when it
\* runs and reports their number; a submission in flight then has no row yet,
\* stays in flight, and its row is written when its generation completes, so
\* the table becomes non-empty again with no new submission.
C29_DeleteAllSparesInFlight ==
    [][/\ DeleteLogs(FALSE) =>
              /\ res'.count = Cardinality(rows)
              /\ rows' = {}
              /\ pending' = pending
              /\ \A p \in pending : \A r \in rows : r.id # p.id
       /\ \A p \in pending :
              (\/ \E outcome \in BackendOutcomes : CompleteLive(p, outcome, FALSE)
               \/ CompleteSimulated(p, FALSE)) =>
                  \E r \in rows' : r.id = p.id]_vars

\* C29 witness: DELETE /tasks/logs removed a row while a submission was in
\* flight
C29_Witness ==
    /\ res.live /\ res.route = "DELETE /logs" /\ res.status = 200
    /\ ~ret.fault
    /\ res.count = 1
    /\ rows = {}
    /\ pending # {}

\* The fields C30 compares
SameSubmission(body, log) ==
    /\ log.id = body.id
    /\ log.task = body.task
    /\ log.response = body.response
    /\ log.status = body.status
    /\ log.timestamp = body.timestamp
    /\ log.processingTime = body.processingTime

\* C30: when POST /tasks/process has answered 200, the row of the id is in
\* the table and reads back with the fields of the body; from then on the row
\* stays as it is unless a DELETE removes it; and GET /tasks/logs/{id} of an
\* answered id whose row is in the table answers 200 with that row.
C30_ReadYourWrites ==
    /\ [](res.live /\ res.route = "POST /process" /\ res.status = 200 =>
              LET read == getInteractionLogById(rows, res.data[1].id, FALSE)
              IN  /\ Len(read.value) = 1
                  /\ SameSubmission(res.data[1], read.value[1]))
    /\ [][/\ \A r \in rows :
                 \/ r \in rows'
                 \/ /\ res'.route \in {"DELETE /logs/:id", "DELETE /logs"}
                    /\ \A q \in rows' : q.id # r.id
          /\ \A id \in PathIds :
                 (/\ GetLog(id, FALSE)
                  /\ \E d \in done : d.id = id /\ d.http = 200
                  /\ \E r \in rows : r.id = id) =>
                     /\ res'.status = 200
                     /\ \E r \in rows : r.id = id /\ res'.logs = <<MapRow(r)>>]_vars

\* C30 witness: a GET of an answered id returned its log, which took time
C30_Witness ==
    /\ res.live /\ res.route = "GET /logs/:id" /\ res.status = 200
    /\ \E d \in done : d.id = ret.id /\ d.http = 200
    /\ res.logs[1].processingTime > 0

(***************************************************************************)
(* Properties of the singleton (checked under SpecStore).                  *)
(***************************************************************************)
\* C23: the store is a process-wide singleton: the first getInstance call
\* fixes the data-file path (the path passed, else the environment's, else the
\* default), and every later getInstance call, whatever path it passes,
\* returns that same instance with the original path; no step replaces the
\* instance once it exists.
C23_Singleton ==
    [][/\ truthy(instance) => instance' = instance
       /\ (ret'.op = "getInstance" /\ ret'.live) =>
              LET databasePath == ret'.databasePath[1]
              IN  /\ ret'.returned = <<instance'>>
                  /\ truthy(instance')
                  /\ ~truthy(instance) =>
                         IF truthy(databasePath)
                         THEN instance'.v = databasePath.v
                         ELSE instance'.v \in {<<"env.db">>, DefaultDatabasePath}]_vars

\* A getInstance that passed a path got back the instance of another path,
\* the one the first call had fixed
C23_Witness ==
    /\ ret.op = "getInstance"
    /\ ret.live
    /\ truthy(ret.databasePath[1])
    /\ ret.returned = <<instance>>
    /\ instance.v # ret.databasePath[1].v

(***************************************************************************)
(* Properties of the stored task (checked under SpecCLI).                  *)
(***************************************************************************)
\* t is s without the white space around it
Stripped(s, t) ==
    /\ Len(t) > 0
    /\ t[1] \notin WhiteSpace
    /\ t[Len(t)] \notin WhiteSpace
    /\ \E i \in 1..Len(s) :
           /\ i + Len(t) - 1 <= Len(s)
           /\ t = SubSeq(s, i, i + Len(t) - 1)
           /\ \A k \in 1..Len(s) :
                  (k < i \/ k > i + Len(t) - 1) => s[k] \in WhiteSpace

\* s is empty or white space only
Blank(s) == \A k \in 1..Len(s) : s[k] \in WhiteSpace

\* C27: every row persisted through the HTTP handler or the CLI has a
\* non-empty task that is not white space only; the task the HTTP handler
\* takes on is the submitted task with the surrounding white space removed and
\* is the task of the row it stores; a submission whose task is white space
\* only is answered 400 and nothing of it is taken on.
C27_TaskNonEmpty ==
    [][/\ \A r \in rows' \ rows :
              /\ Len(r.task) > 0
              /\ ~Blank(r.task)
              /\ \/ \E p \in pending \ pending' :
                        /\ r.id = p.id
                        /\ r.task = p.request.task
                        /\ r.ip_address.t # "null"
                 \/ /\ cli.at = "processing"
                    /\ cli'.at = "prompt"
                    /\ r.id = cli.task[1].id
                    /\ r.task = cli.task[1].request.task
                    /\ r.ip_address.t = "null"
       /\ \A req \in Requests :
              PostProcess(req) =>
                  /\ \A p \in pending' \ pending :
                         /\ req.task.t = "string"
                         /\ Stripped(req.task.v, p.request.task)
                  /\ (req.task.t = "string" /\ Blank(req.task.v)) =>
                         /\ pending' = pending
                         /\ res'.status = 400
       /\ (cli'.at = "processing" /\ cli.at = "prompt") =>
              ~Blank(cli'.task[1].request.task)]_vars

\* The table holds a row of the CLI whose task has white space at both ends
\* and a row of the HTTP handler, whose task has none, and a submission has
\* just been answered 400
C27_Witness ==
    /\ \E r \in rows :
           /\ r.ip_address.t = "null"
           /\ r.task[1] \in WhiteSpace
           /\ r.task[Len(r.task)] \in WhiteSpace
    /\ \E r \in rows :
           /\ r.ip_address.t # "null"
           /\ Stripped(r.task, r.task)
    /\ res.live
    /\ res.route = "POST /process"
    /\ res.status = 400

====
